---- MODULE Spec2Model ----
(***************************************************************************)
(* Model of the pinner of src/pin/pin.go: the in-memory pin sets, the      *)
(* block store the pin record is written to, the durable root pointer,     *)
(* and the operations Pin, Unpin, PinWithMode, RemovePinWithMode, Flush    *)
(* and LoadPinner.  The pin-set codec (pin/set.go) and the DAG service     *)
(* (merkledag) are modelled from their description in spec.md.             *)
(*                                                                         *)
(* A DAG node is a record [data, links]; a link is [name, hash].  The      *)
(* store is content addressed, so the identifier (key) of a node is        *)
(* modelled by the node's content itself: two nodes have the same key      *)
(* exactly when they have the same content.  "k \in blocks" says that the  *)
(* block with key k can be fetched.                                        *)
(***************************************************************************)
EXTENDS Integers, Sequences, FiniteSets, TLC

\* ------------------------------------------------------------------ bounds
MaxFlush == 2        \* number of Flush calls in one behaviour
MaxItems == 1        \* entries a leaf of the pin-set encoding holds
Fanout   == 2        \* buckets of an interior node of the encoding
MaxCount == 2        \* largest multiplicity given to the codec

\* ------------------------------------------------------------ DAG nodes
Node(d, l) == [data |-> d, links |-> l]
Link(name, n) == [name |-> name, hash |-> n]

\* new(mdag.Node): the node with no data and no links, whose key is emptyKey
emptyKey == Node(<<>>, <<>>)

\* a *mdag.Node that is nil, and a datastore key with no value
NoNode == Node(<<-1>>, <<>>)

\* user content: A has the children B and C, D has the child A
ndB == Node(<<2>>, <<>>)
ndC == Node(<<3>>, <<>>)
ndA == Node(<<1>>, <<Link("", ndB), Link("", ndC)>>)
ndD == Node(<<4>>, <<Link("", ndA)>>)

UserNodes == {ndA, ndB, ndC, ndD}

\* a node that reaches A along two paths, directly and through D
ndE == Node(<<5>>, <<Link("", ndA), Link("", ndD)>>)

\* every key of the model, in the order of its hash
KeySeq == <<ndA, ndB, ndC, ndD, emptyKey>>
AllKeys == {KeySeq[i] : i \in 1..Len(KeySeq)}

\* the keys the callers pass where the pin record is flushed and loaded
Keys == {ndA, emptyKey}

\* the keys the callers pass where only the sets in memory are at stake
WideKeys == {ndA, ndC, ndD, emptyKey}

\* the uniform hash of a key, unique per key of the model
KeyHash(k) == CHOOSE i \in 1..Len(KeySeq) : KeySeq[i] = k

\* ------------------------------------------------- pin-set codec (set.go)
\* A multiset is a function from keys to multiplicities.
EmptyMap == [k \in {} |-> 0]
Cnt(m, k) == IF k \in DOMAIN m THEN m[k] ELSE 0
Merge(a, b) == [k \in (DOMAIN a) \cup (DOMAIN b) |-> Cnt(a, k) + Cnt(b, k)]
Restrict(m, S) == [k \in S |-> m[k]]

\* Positive that keeps the entries with multiplicity 0
PositiveAll(m) == m

\* entries with multiplicity 0 are equivalent to absence
Positive(m) == Restrict(m, {k \in DOMAIN m : m[k] > 0})

\* markers in the data of the two kinds of encoding node
LeafTag == 8
ShardTag == 9

RECURSIVE SortKeys(_)
SortKeys(S) ==
    IF S = {} THEN <<>>
    ELSE LET k == CHOOSE x \in S : \A y \in S : KeyHash(x) <= KeyHash(y)
         IN  <<k>> \o SortKeys(S \ {k})

\* the bucket of key k in an interior node at the given depth
Bucket(k, depth) == (KeyHash(k) \div (Fanout ^ depth)) % Fanout

\* a leaf lists its (key, multiplicity) pairs: one link per key, in hash
\* order, and the multiplicities in the data
LeafNode(m) ==
    LET ks == SortKeys(DOMAIN m)
    IN  Node(<<LeafTag>> \o [i \in 1..Len(ks) |-> m[ks[i]]],
             [i \in 1..Len(ks) |-> Link("", ks[i])])

\* storeItems(m, depth): the node encoding m, the nodes written to the DAG
\* below it (made) and the keys reported to the collector below it (seen)
RECURSIVE storeItems(_, _)
storeItems(m, depth) ==
    IF DOMAIN m = {} THEN [top |-> emptyKey, made |-> {}, seen |-> {}]
    ELSE IF Cardinality(DOMAIN m) <= MaxItems
    THEN [top |-> LeafNode(m), made |-> {}, seen |-> {}]
    ELSE LET sub(b) == storeItems(
                 Restrict(m, {k \in DOMAIN m : Bucket(k, depth) = b}),
                 depth + 1)
             full == {b \in 0..(Fanout - 1) : sub(b).top # emptyKey}
         IN  [top  |-> Node(<<ShardTag>>,
                            [i \in 1..Fanout |-> Link("", sub(i - 1).top)]),
              made |-> UNION {sub(b).made \cup {sub(b).top} : b \in full},
              seen |-> UNION {sub(b).seen \cup {sub(b).top}
                                 : b \in 0..(Fanout - 1)}]

\* storeMultiset: encodes the positive entries of m; the top node is written
\* to the DAG and reported to the collector as well
storeMultiset(m) ==
    LET r == storeItems(Positive(m), 0)
    IN  [top  |-> r.top,
         made |-> r.made \cup {r.top},
         seen |-> r.seen \cup {r.top}]

\* storeSet: a set of keys is the multiset with every multiplicity 1
storeSet(keys) == storeMultiset([k \in keys |-> 1])

\* the orders in which the entries of a mapping with the keys S can be handed
\* to the encoder (the iteration order of a Go map or of GetKeys())
RECURSIVE Orders(_)
Orders(S) ==
    IF S = {} THEN {<<>>}
    ELSE UNION {{<<k>> \o o : o \in Orders(S \ {k})} : k \in S}

\* an encoder that writes the entries to one leaf in the order they arrive
storeFedInOrder(order, m) ==
    LET ks  == SelectSeq(order, LAMBDA k : m[k] > 0)
        top == IF Len(ks) = 0 THEN emptyKey
               ELSE Node(<<LeafTag>> \o [i \in 1..Len(ks) |-> m[ks[i]]],
                         [i \in 1..Len(ks) |-> Link("", ks[i])])
    IN  [top |-> top, made |-> {top}, seen |-> {top}]

\* storeMultiset as it meets the entries of m in the given order: the
\* entries are collected into the mapping, which alone decides the encoding
storeFed(order, m) ==
    storeMultiset(Restrict(m, {order[i] : i \in 1..Len(order)}))

LoadErr == [ok |-> FALSE, m |-> EmptyMap, seen |-> {}]

\* loadItems(n, store): decodes the fetched node n, fetching the nodes
\* below it from store; every key visited is reported to the collector
RECURSIVE loadItems(_, _)
RECURSIVE loadShards(_, _, _)
loadShards(n, store, i) ==
    IF i > Len(n.links) THEN [ok |-> TRUE, m |-> EmptyMap, seen |-> {}]
    ELSE LET k == n.links[i].hash
             rest == loadShards(n, store, i + 1)
         IN  IF k = emptyKey
             THEN [rest EXCEPT !.seen = @ \cup {k}]
             ELSE IF k \notin store THEN LoadErr
             ELSE LET c == loadItems(k, store)
                  IN  IF ~c.ok \/ ~rest.ok THEN LoadErr
                      ELSE [ok   |-> TRUE,
                            m    |-> Merge(c.m, rest.m),
                            seen |-> c.seen \cup rest.seen \cup {k}]

\* LeafItems with the multiplicities dropped: every entry counts once
RECURSIVE LeafItemsOnce(_, _)
LeafItemsOnce(n, i) ==
    IF i > Len(n.links) THEN EmptyMap
    ELSE Merge([k \in {n.links[i].hash} |-> 1], LeafItemsOnce(n, i + 1))

RECURSIVE LeafItems(_, _)
LeafItems(n, i) ==
    IF i > Len(n.links) THEN EmptyMap
    ELSE Merge([k \in {n.links[i].hash} |-> n.data[i + 1]],
               LeafItems(n, i + 1))

loadItems(n, store) ==
    IF n = emptyKey THEN [ok |-> TRUE, m |-> EmptyMap, seen |-> {}]
    ELSE IF Len(n.data) = 0 THEN LoadErr
    ELSE IF n.data[1] = LeafTag /\ Len(n.data) = Len(n.links) + 1
    THEN [ok |-> TRUE, m |-> LeafItems(n, 1), seen |-> {}]
    ELSE IF n.data[1] = ShardTag /\ Len(n.links) = Fanout
    THEN loadShards(n, store, 1)
    ELSE LoadErr

\* the node a named link of root points to (NoNode: no such link)
RECURSIVE LinkNamed(_, _, _)
LinkNamed(root, name, i) ==
    IF i > Len(root.links) THEN NoNode
    ELSE IF root.links[i].name = name THEN root.links[i].hash
    ELSE LinkNamed(root, name, i + 1)

\* loadMultiset: fetches the node the link points to and decodes it
loadMultiset(root, name, store) ==
    LET k == LinkNamed(root, name, 1)
    IN  IF k = NoNode \/ k \notin store THEN LoadErr
        ELSE LET r == loadItems(k, store)
             IN  IF r.ok THEN [r EXCEPT !.seen = @ \cup {k}] ELSE LoadErr

\* loadSet: the keys of the decoded multiset
loadSet(root, name, store) ==
    LET r == loadMultiset(root, name, store)
    IN  [ok |-> r.ok, keys |-> DOMAIN r.m, seen |-> r.seen]


VARIABLES
    directPin,     \* pinner.directPin
    recursePin,    \* pinner.recursePin
    internalPin,   \* pinner.internalPin
    rootNode,      \* pinner.rootNode (NoNode when nil)
    blocks,        \* the nodes present in dserv / bstore
    dstore,        \* the value stored under pinDatastoreKey (NoNode: none)
    pc,            \* position of the call in progress
    fl,            \* locals of Flush: root, internalPin, link index
    call,          \* the call in progress or the last call, with its result
    pre,           \* the state when that call began
    nflush,        \* Flush calls so far
    cm,            \* codec check: the mapping given to storeMultiset
    cst,           \* codec check: stage and results
    obs,           \* what DirectKeys and RecursiveKeys last returned
    rrq            \* the round-robin queue of the bitswap decision engine

pinnerVars == <<directPin, recursePin, internalPin, rootNode, blocks, dstore,
                pc, fl, call, pre, nflush>>
codecVars == <<cm, cst, obs, rrq>>
vars == <<directPin, recursePin, internalPin, rootNode, blocks, dstore,
          pc, fl, call, pre, nflush, cm, cst, obs, rrq>>

\* ---------------------------------------------------------------- helpers
\* under: the root a query reports an indirect pin to hang off
Call(op, k, arg, ret) ==
    [op |-> op, k |-> k, arg |-> arg, ret |-> ret, under |-> NoNode]
Snapshot == [directPin |-> directPin, recursePin |-> recursePin,
             internalPin |-> internalPin, rootNode |-> rootNode,
             blocks |-> blocks, dstore |-> dstore]
FlNone == [root |-> NoNode, internal |-> {}, i |-> 0]

\* a call returns: the lock is released and the result recorded
Return(op, k, arg, ret) ==
    /\ pc' = "idle"
    /\ call' = Call(op, k, arg, ret)

\* mdag.FetchGraph(node): every descendant of node can be fetched
RECURSIVE FetchGraph(_)
FetchGraph(node) ==
    \A i \in 1..Len(node.links) :
        /\ node.links[i].hash \in blocks
        /\ FetchGraph(node.links[i].hash)

\* hasChild that looks at the links of the root only
RECURSIVE hasChildFromShallow(_, _, _)
hasChildFromShallow(root, child, i) ==
    IF i > Len(root.links) THEN "false"
    ELSE IF root.links[i].hash = child THEN "true"
    ELSE hasChildFromShallow(root, child, i + 1)

\* hasChild(root, child): "true", "false" or "err", links taken in order
RECURSIVE hasChildFrom(_, _, _)
hasChildFrom(root, child, i) ==
    IF i > Len(root.links) THEN "false"
    ELSE LET k == root.links[i].hash
         IN  IF k = child THEN "true"
             ELSE IF k \notin blocks THEN "err"
             ELSE LET has == hasChildFrom(k, child, 1)
                  IN  IF has = "false" THEN hasChildFrom(root, child, i + 1)
                      ELSE has

hasChild(root, child) == hasChildFrom(root, child, 1)

\* the number of Get calls hasChild makes at most from link i of a node on:
\* one for each path that leaves the node through that link or a later one
RECURSIVE FetchesFrom(_, _)
FetchesFrom(n, i) ==
    IF i > Len(n.links) THEN 0
    ELSE 1 + FetchesFrom(n.links[i].hash, 1) + FetchesFrom(n, i + 1)

\* hasChild that stays at the link it has just walked
RECURSIVE hasChildFuelLoop(_, _, _, _)
hasChildFuelLoop(root, child, i, fuel) ==
    IF i > Len(root.links) THEN [has |-> "false", left |-> fuel]
    ELSE LET k == root.links[i].hash
         IN  IF k = child THEN [has |-> "true", left |-> fuel]
             ELSE IF fuel = 0 THEN [has |-> "stuck", left |-> 0]
             ELSE IF k \notin blocks THEN [has |-> "err", left |-> fuel - 1]
             ELSE LET sub == hasChildFuelLoop(k, child, 1, fuel - 1)
                  IN  IF sub.has = "false"
                      THEN hasChildFuelLoop(root, child, i, sub.left)
                      ELSE sub

\* hasChild, one Get at a time: fuel is the number of Get calls it may still
\* make, and the walk is "stuck" when it needs one more
RECURSIVE hasChildFuel(_, _, _, _)
hasChildFuel(root, child, i, fuel) ==
    IF i > Len(root.links) THEN [has |-> "false", left |-> fuel]
    ELSE LET k == root.links[i].hash
         IN  IF k = child THEN [has |-> "true", left |-> fuel]
             ELSE IF fuel = 0 THEN [has |-> "stuck", left |-> 0]
             ELSE IF k \notin blocks THEN [has |-> "err", left |-> fuel - 1]
             ELSE LET sub == hasChildFuel(k, child, 1, fuel - 1)
                  IN  IF sub.has = "false"
                      THEN hasChildFuel(root, child, i + 1, sub.left)
                      ELSE sub


\* the results of isPinnedWithType: reason, the root an indirect pin hangs
\* off, pinned, err
Res(reason, under, pinned, err) ==
    [reason |-> reason, under |-> under, pinned |-> pinned, err |-> err]
ResNot == Res("", NoNode, FALSE, FALSE)
ResErr == Res("", NoNode, FALSE, TRUE)

ValidTypes == {"all", "direct", "indirect", "recursive", "internal"}

\* the loop over recursePin.GetKeys() that returns after its first root
indirectWalkFirst(k, roots) ==
    IF roots = {} THEN {ResNot}
    ELSE UNION {
        IF rk \notin blocks THEN {ResErr}
        ELSE LET has == hasChild(rk, k)
             IN  IF has = "err" THEN {ResErr}
                 ELSE IF has = "true" THEN {Res("indirect", rk, TRUE, FALSE)}
                 ELSE {ResNot}
        : rk \in roots }

\* the loop that passes over a root it cannot walk to the end
indirectWalkQuiet(k, roots) ==
    LET over == {rk \in roots : rk \in blocks /\ hasChild(rk, k) = "true"}
    IN  IF over = {} THEN {ResNot}
        ELSE {Res("indirect", rk, TRUE, FALSE) : rk \in over}

\* the loop over recursePin.GetKeys(): the keys come in any order, and the
\* loop returns at the first error or the first root that has the child
RECURSIVE indirectWalk(_, _)
indirectWalk(k, roots) ==
    IF roots = {} THEN {ResNot}
    ELSE UNION {
        IF rk \notin blocks THEN {ResErr}
        ELSE LET has == hasChild(rk, k)
             IN  IF has = "err" THEN {ResErr}
                 ELSE IF has = "true" THEN {Res("indirect", rk, TRUE, FALSE)}
                 ELSE indirectWalk(k, roots \ {rk})
        : rk \in roots }

\* isPinnedWithType that takes every type string it does not know as
\* "indirect"
isPinnedWithTypeAnyType(k, typeStr) ==
    IF typeStr \in {"recursive", "all"} /\ k \in recursePin
    THEN {Res("recursive", NoNode, TRUE, FALSE)}
    ELSE IF typeStr = "recursive" THEN {ResNot}
    ELSE IF typeStr \in {"direct", "all"} /\ k \in directPin
    THEN {Res("direct", NoNode, TRUE, FALSE)}
    ELSE IF typeStr = "direct" THEN {ResNot}
    ELSE IF typeStr \in {"internal", "all"} /\ k \in internalPin
    THEN {Res("internal", NoNode, TRUE, FALSE)}
    ELSE IF typeStr = "internal" THEN {ResNot}
    ELSE indirectWalk(k, recursePin)

\* isPinnedWithType that goes on to the walk when the key is not in the set
\* the type names
isPinnedWithTypeWalks(k, typeStr) ==
    IF typeStr \notin ValidTypes THEN {ResErr}
    ELSE IF typeStr \in {"recursive", "all"} /\ k \in recursePin
    THEN {Res("recursive", NoNode, TRUE, FALSE)}
    ELSE IF typeStr \in {"direct", "all"} /\ k \in directPin
    THEN {Res("direct", NoNode, TRUE, FALSE)}
    ELSE IF typeStr \in {"internal", "all"} /\ k \in internalPin
    THEN {Res("internal", NoNode, TRUE, FALSE)}
    ELSE indirectWalk(k, recursePin)

\* isPinnedWithType that looks at directPin for the type "direct" only
isPinnedWithTypeNoDirect(k, typeStr) ==
    IF typeStr \notin ValidTypes THEN {ResErr}
    ELSE IF typeStr \in {"recursive", "all"} /\ k \in recursePin
    THEN {Res("recursive", NoNode, TRUE, FALSE)}
    ELSE IF typeStr = "recursive" THEN {ResNot}
    ELSE IF typeStr = "direct" /\ k \in directPin
    THEN {Res("direct", NoNode, TRUE, FALSE)}
    ELSE IF typeStr = "direct" THEN {ResNot}
    ELSE IF typeStr \in {"internal", "all"} /\ k \in internalPin
    THEN {Res("internal", NoNode, TRUE, FALSE)}
    ELSE IF typeStr = "internal" THEN {ResNot}
    ELSE indirectWalk(k, recursePin)

\* isPinnedWithType that looks at internalPin first
isPinnedWithTypeInternalFirst(k, typeStr) ==
    IF typeStr \notin ValidTypes THEN {ResErr}
    ELSE IF typeStr \in {"internal", "all"} /\ k \in internalPin
    THEN {Res("internal", NoNode, TRUE, FALSE)}
    ELSE IF typeStr \in {"recursive", "all"} /\ k \in recursePin
    THEN {Res("recursive", NoNode, TRUE, FALSE)}
    ELSE IF typeStr = "recursive" THEN {ResNot}
    ELSE IF typeStr \in {"direct", "all"} /\ k \in directPin
    THEN {Res("direct", NoNode, TRUE, FALSE)}
    ELSE IF typeStr = "direct" THEN {ResNot}
    ELSE IF typeStr = "internal" THEN {ResNot}
    ELSE indirectWalk(k, recursePin)

\* isPinnedWithType(k, typeStr): the set of results the call can return
isPinnedWithType(k, typeStr) ==
    IF typeStr \notin ValidTypes THEN {ResErr}
    ELSE IF typeStr \in {"recursive", "all"} /\ k \in recursePin
    THEN {Res("recursive", NoNode, TRUE, FALSE)}
    ELSE IF typeStr = "recursive" THEN {ResNot}
    ELSE IF typeStr \in {"direct", "all"} /\ k \in directPin
    THEN {Res("direct", NoNode, TRUE, FALSE)}
    ELSE IF typeStr = "direct" THEN {ResNot}
    ELSE IF typeStr \in {"internal", "all"} /\ k \in internalPin
    THEN {Res("internal", NoNode, TRUE, FALSE)}
    ELSE IF typeStr = "internal" THEN {ResNot}
    ELSE indirectWalk(k, recursePin)

\* ------------------------------------------------------------------- Init
PinnerInit ==
    /\ directPin = {}
    /\ recursePin = {}
    /\ internalPin = {}
    /\ rootNode = NoNode
    /\ blocks \in {UserNodes, UserNodes \ {ndC}, UserNodes \ {ndA}}
    /\ dstore = NoNode
    /\ pc = "idle"
    /\ fl = FlNone
    /\ call = Call("NewPinner", NoNode, "", "ok")
    /\ pre = [directPin |-> {}, recursePin |-> {}, internalPin |-> {},
              rootNode |-> NoNode, blocks |-> blocks, dstore |-> NoNode]
    /\ nflush = 0

\* newRRQueue: no weights and no allocations; op, ret and was note the last
\* call on the queue, its result and the allocations it found
newRRQueue == [weights |-> EmptyMap, allocations |-> <<>>,
               op |-> "newRRQueue", ret |-> "", was |-> <<>>]

\* nothing has been listed yet
ObsNone == [stage |-> "none", direct |-> {}, recursive |-> {}, at |-> "none",
            k |-> NoNode, pre |-> NoNode]

CodecIdle == [stage |-> "none", top |-> NoNode, ok |-> TRUE, m |-> EmptyMap]

Init ==
    /\ PinnerInit
    /\ cm = EmptyMap
    /\ cst = CodecIdle
    /\ obs = ObsNone
    /\ rrq = newRRQueue

\* ------------------------------------------------------------ Pin / Unpin
\* Pin that keeps the direct entry when it pins recursively
PinKeepDirect(k, recurse) ==
    /\ pc = "idle"
    /\ pre' = Snapshot
    /\ UNCHANGED <<internalPin, rootNode, blocks, dstore, fl, nflush, cm, cst,
                   obs, rrq>>
    /\ IF recurse
       THEN IF k \in recursePin
            THEN /\ Return("Pin", k, "true", "ok")
                 /\ UNCHANGED <<directPin, recursePin>>
            ELSE /\ pc' = "pin_fetch"
                 /\ call' = Call("Pin", k, "true", "pending")
                 /\ UNCHANGED <<directPin, recursePin>>
       ELSE IF k \notin blocks
            THEN /\ Return("Pin", k, "false", "fetch")
                 /\ UNCHANGED <<directPin, recursePin>>
            ELSE IF k \in recursePin
            THEN /\ Return("Pin", k, "false", "already")
                 /\ UNCHANGED <<directPin, recursePin>>
            ELSE /\ directPin' = directPin \cup {k}
                 /\ Return("Pin", k, "false", "ok")
                 /\ UNCHANGED recursePin

\* Pin that fetches the graph of a key that is already pinned recursively
PinAlwaysFetch(k, recurse) ==
    /\ pc = "idle"
    /\ pre' = Snapshot
    /\ UNCHANGED <<internalPin, rootNode, blocks, dstore, fl, nflush, cm, cst,
                   obs, rrq>>
    /\ IF recurse
       THEN /\ directPin' = directPin \ {k}
            /\ pc' = "pin_fetch"
            /\ call' = Call("Pin", k, "true", "pending")
            /\ UNCHANGED recursePin
       ELSE IF k \notin blocks
            THEN /\ Return("Pin", k, "false", "fetch")
                 /\ UNCHANGED <<directPin, recursePin>>
            ELSE IF k \in recursePin
            THEN /\ Return("Pin", k, "false", "already")
                 /\ UNCHANGED <<directPin, recursePin>>
            ELSE /\ directPin' = directPin \cup {k}
                 /\ Return("Pin", k, "false", "ok")
                 /\ UNCHANGED recursePin

\* Pin that pins directly without fetching the key
PinNoGet(k, recurse) ==
    /\ pc = "idle"
    /\ pre' = Snapshot
    /\ UNCHANGED <<internalPin, rootNode, blocks, dstore, fl, nflush, cm, cst,
                   obs, rrq>>
    /\ IF recurse
       THEN IF k \in recursePin
            THEN /\ Return("Pin", k, "true", "ok")
                 /\ UNCHANGED <<directPin, recursePin>>
            ELSE /\ directPin' = directPin \ {k}
                 /\ pc' = "pin_fetch"
                 /\ call' = Call("Pin", k, "true", "pending")
                 /\ UNCHANGED recursePin
       ELSE IF k \in recursePin
            THEN /\ Return("Pin", k, "false", "already")
                 /\ UNCHANGED <<directPin, recursePin>>
            ELSE /\ directPin' = directPin \cup {k}
                 /\ Return("Pin", k, "false", "ok")
                 /\ UNCHANGED recursePin

\* Pin, up to its return or to the fetch of the graph; node.Key() of a
\* well-formed node does not fail
Pin(k, recurse) ==
    /\ pc = "idle"
    /\ pre' = Snapshot
    /\ UNCHANGED <<internalPin, rootNode, blocks, dstore, fl, nflush, cm, cst,
                   obs, rrq>>
    /\ IF recurse
       THEN IF k \in recursePin
            THEN /\ Return("Pin", k, "true", "ok")
                 /\ UNCHANGED <<directPin, recursePin>>
            ELSE /\ directPin' = directPin \ {k}
                 /\ pc' = "pin_fetch"
                 /\ call' = Call("Pin", k, "true", "pending")
                 /\ UNCHANGED recursePin
       ELSE IF k \notin blocks
            THEN /\ Return("Pin", k, "false", "fetch")
                 /\ UNCHANGED <<directPin, recursePin>>
            ELSE IF k \in recursePin
            THEN /\ Return("Pin", k, "false", "already")
                 /\ UNCHANGED <<directPin, recursePin>>
            ELSE /\ directPin' = directPin \cup {k}
                 /\ Return("Pin", k, "false", "ok")
                 /\ UNCHANGED recursePin

\* PinFetch that drops the error of FetchGraph
PinFetchIgnoreErr ==
    /\ pc = "pin_fetch"
    /\ UNCHANGED <<directPin, internalPin, rootNode, blocks, dstore, fl,
                   pre, nflush, cm, cst, obs, rrq>>
    /\ recursePin' = recursePin \cup {call.k}
    /\ Return("Pin", call.k, "true", "ok")

\* the rest of a recursive Pin: fetch the entire graph, then add the key
\* the fetch of Pin that returns its error with the lock still held
PinFetchKeepLock ==
    /\ pc = "pin_fetch"
    /\ UNCHANGED <<directPin, internalPin, rootNode, blocks, dstore, fl,
                   pre, nflush, cm, cst, obs, rrq>>
    /\ IF FetchGraph(call.k)
       THEN /\ recursePin' = recursePin \cup {call.k}
            /\ Return("Pin", call.k, "true", "ok")
       ELSE /\ call' = Call("Pin", call.k, "true", "fetch")
            /\ UNCHANGED <<recursePin, pc>>

PinFetch ==
    /\ pc = "pin_fetch"
    /\ UNCHANGED <<directPin, internalPin, rootNode, blocks, dstore, fl,
                   pre, nflush, cm, cst, obs, rrq>>
    /\ IF FetchGraph(call.k)
       THEN /\ recursePin' = recursePin \cup {call.k}
            /\ Return("Pin", call.k, "true", "ok")
       ELSE /\ Return("Pin", call.k, "true", "fetch")
            /\ UNCHANGED recursePin

\* Unpin that does not look at the pinned result
UnpinNoNotPinned(k, recursive) ==
    /\ pc = "idle"
    /\ pre' = Snapshot
    /\ UNCHANGED <<internalPin, rootNode, blocks, dstore, fl, nflush, cm, cst,
                   obs, rrq>>
    /\ LET arg == IF recursive THEN "true" ELSE "false" IN
       \E r \in isPinnedWithType(k, "all") :
        IF r.err
        THEN /\ Return("Unpin", k, arg, "fetch")
             /\ UNCHANGED <<directPin, recursePin>>
        ELSE IF ~r.pinned
        THEN /\ Return("Unpin", k, arg, "indirectly")
             /\ UNCHANGED <<directPin, recursePin>>
        ELSE IF r.reason = "recursive"
        THEN IF recursive
             THEN /\ recursePin' = recursePin \ {k}
                  /\ Return("Unpin", k, arg, "ok")
                  /\ UNCHANGED directPin
             ELSE /\ Return("Unpin", k, arg, "recursively")
                  /\ UNCHANGED <<directPin, recursePin>>
        ELSE IF r.reason = "direct"
        THEN /\ directPin' = directPin \ {k}
             /\ Return("Unpin", k, arg, "ok")
             /\ UNCHANGED recursePin
        ELSE /\ pc' = "idle"
             /\ call' = [Call("Unpin", k, arg, "indirectly")
                             EXCEPT !.under = r.under]
             /\ UNCHANGED <<directPin, recursePin>>

\* Unpin that does not look at its recursive flag
UnpinIgnoreFlag(k, recursive) ==
    /\ pc = "idle"
    /\ pre' = Snapshot
    /\ UNCHANGED <<internalPin, rootNode, blocks, dstore, fl, nflush, cm, cst,
                   obs, rrq>>
    /\ LET arg == IF recursive THEN "true" ELSE "false" IN
       \E r \in isPinnedWithType(k, "all") :
        IF r.err
        THEN /\ Return("Unpin", k, arg, "fetch")
             /\ UNCHANGED <<directPin, recursePin>>
        ELSE IF ~r.pinned
        THEN /\ Return("Unpin", k, arg, "notpinned")
             /\ UNCHANGED <<directPin, recursePin>>
        ELSE IF r.reason = "recursive"
        THEN IF TRUE
             THEN /\ recursePin' = recursePin \ {k}
                  /\ Return("Unpin", k, arg, "ok")
                  /\ UNCHANGED directPin
             ELSE /\ Return("Unpin", k, arg, "recursively")
                  /\ UNCHANGED <<directPin, recursePin>>
        ELSE IF r.reason = "direct"
        THEN /\ directPin' = directPin \ {k}
             /\ Return("Unpin", k, arg, "ok")
             /\ UNCHANGED recursePin
        ELSE /\ pc' = "idle"
             /\ call' = [Call("Unpin", k, arg, "indirectly")
                             EXCEPT !.under = r.under]
             /\ UNCHANGED <<directPin, recursePin>>

\* Unpin whose switch has no default case: it returns nil
UnpinNoDefault(k, recursive) ==
    /\ pc = "idle"
    /\ pre' = Snapshot
    /\ UNCHANGED <<internalPin, rootNode, blocks, dstore, fl, nflush, cm, cst,
                   obs, rrq>>
    /\ LET arg == IF recursive THEN "true" ELSE "false" IN
       \E r \in isPinnedWithType(k, "all") :
        IF r.err
        THEN /\ Return("Unpin", k, arg, "fetch")
             /\ UNCHANGED <<directPin, recursePin>>
        ELSE IF ~r.pinned
        THEN /\ Return("Unpin", k, arg, "notpinned")
             /\ UNCHANGED <<directPin, recursePin>>
        ELSE IF r.reason = "recursive"
        THEN IF recursive
             THEN /\ recursePin' = recursePin \ {k}
                  /\ Return("Unpin", k, arg, "ok")
                  /\ UNCHANGED directPin
             ELSE /\ Return("Unpin", k, arg, "recursively")
                  /\ UNCHANGED <<directPin, recursePin>>
        ELSE IF r.reason = "direct"
        THEN /\ directPin' = directPin \ {k}
             /\ Return("Unpin", k, arg, "ok")
             /\ UNCHANGED recursePin
        ELSE /\ pc' = "idle"
             /\ call' = [Call("Unpin", k, arg, "ok")
                             EXCEPT !.under = r.under]
             /\ UNCHANGED <<directPin, recursePin>>

\* Unpin: the classification of the key decides; the error of the last
\* case names the reason, for an indirect pin the root it hangs off
Unpin(k, recursive) ==
    /\ pc = "idle"
    /\ pre' = Snapshot
    /\ UNCHANGED <<internalPin, rootNode, blocks, dstore, fl, nflush, cm, cst,
                   obs, rrq>>
    /\ LET arg == IF recursive THEN "true" ELSE "false" IN
       \E r \in isPinnedWithType(k, "all") :
        IF r.err
        THEN /\ Return("Unpin", k, arg, "fetch")
             /\ UNCHANGED <<directPin, recursePin>>
        ELSE IF ~r.pinned
        THEN /\ Return("Unpin", k, arg, "notpinned")
             /\ UNCHANGED <<directPin, recursePin>>
        ELSE IF r.reason = "recursive"
        THEN IF recursive
             THEN /\ recursePin' = recursePin \ {k}
                  /\ Return("Unpin", k, arg, "ok")
                  /\ UNCHANGED directPin
             ELSE /\ Return("Unpin", k, arg, "recursively")
                  /\ UNCHANGED <<directPin, recursePin>>
        ELSE IF r.reason = "direct"
        THEN /\ directPin' = directPin \ {k}
             /\ Return("Unpin", k, arg, "ok")
             /\ UNCHANGED recursePin
        ELSE /\ pc' = "idle"
             /\ call' = [Call("Unpin", k, arg, "indirectly")
                             EXCEPT !.under = r.under]
             /\ UNCHANGED <<directPin, recursePin>>

Modes == {"Recursive", "Direct", "NotPinned"}

\* PinWithMode that pins directly only what is not pinned recursively
PinWithModeChecked(k, mode) ==
    /\ pc = "idle"
    /\ pre' = Snapshot
    /\ UNCHANGED <<internalPin, rootNode, blocks, dstore, fl, nflush, cm, cst,
                   obs, rrq>>
    /\ Return("PinWithMode", k, mode, "ok")
    /\ recursePin' = IF mode = "Recursive" THEN recursePin \cup {k}
                     ELSE recursePin
    /\ directPin' = IF mode = "Direct" /\ k \notin recursePin
                    THEN directPin \cup {k}
                    ELSE directPin

PinWithMode(k, mode) ==
    /\ pc = "idle"
    /\ pre' = Snapshot
    /\ UNCHANGED <<internalPin, rootNode, blocks, dstore, fl, nflush, cm, cst,
                   obs, rrq>>
    /\ Return("PinWithMode", k, mode, "ok")
    /\ recursePin' = IF mode = "Recursive" THEN recursePin \cup {k}
                     ELSE recursePin
    /\ directPin' = IF mode = "Direct" THEN directPin \cup {k} ELSE directPin

RemovePinWithMode(k, mode) ==
    /\ pc = "idle"
    /\ pre' = Snapshot
    /\ UNCHANGED <<internalPin, rootNode, blocks, dstore, fl, nflush, cm, cst,
                   obs, rrq>>
    /\ Return("RemovePinWithMode", k, mode,
              IF mode \in {"Recursive", "Direct"} THEN "ok" ELSE "panic")
    /\ recursePin' = IF mode = "Recursive" THEN recursePin \ {k}
                     ELSE recursePin
    /\ directPin' = IF mode = "Direct" THEN directPin \ {k} ELSE directPin


\* ---------------------------------------------------------------- queries
\* the type strings the callers pass: the valid ones and one that is not
TypeStrs == ValidTypes \cup {"bogus"}

\* what a query hands back, as recorded in call.ret
Outcome(r) ==
    IF r.err THEN "error" ELSE IF ~r.pinned THEN "notpinned" ELSE r.reason

\* IsPinnedWithType: isPinnedWithType under the read lock
IsPinnedWithType(k, typeStr) ==
    /\ pc = "idle"
    /\ pre' = Snapshot
    /\ \E r \in isPinnedWithType(k, typeStr) :
          call' = [Call("IsPinnedWithType", k, typeStr, Outcome(r))
                       EXCEPT !.under = r.under]
    /\ UNCHANGED <<directPin, recursePin, internalPin, rootNode, blocks,
                   dstore, pc, fl, nflush, cm, cst, obs, rrq>>

\* IsPinned that does not take the lock
IsPinnedNoLock(k) ==
    /\ pc # "down"
    /\ pre' = Snapshot
    /\ \E r \in isPinnedWithType(k, "all") :
          call' = [Call("IsPinned", k, "all", Outcome(r))
                       EXCEPT !.under = r.under]
    /\ UNCHANGED <<directPin, recursePin, internalPin, rootNode, blocks,
                   dstore, pc, fl, nflush, cm, cst, obs, rrq>>

\* IsPinned: isPinnedWithType(k, "all") under the read lock
IsPinned(k) ==
    /\ pc = "idle"
    /\ pre' = Snapshot
    /\ \E r \in isPinnedWithType(k, "all") :
          call' = [Call("IsPinned", k, "all", Outcome(r))
                       EXCEPT !.under = r.under]
    /\ UNCHANGED <<directPin, recursePin, internalPin, rootNode, blocks,
                   dstore, pc, fl, nflush, cm, cst, obs, rrq>>

\* InternalPins that hands its map over and starts a new one
InternalPinsTake ==
    /\ pc = "idle"
    /\ pre' = Snapshot
    /\ call' = Call("InternalPins", NoNode, "", "ok")
    /\ internalPin' = {}
    /\ UNCHANGED <<directPin, recursePin, rootNode, blocks,
                   dstore, pc, fl, nflush, cm, cst, obs, rrq>>

\* InternalPins: the keys of internalPin, under the lock
InternalPins ==
    /\ pc = "idle"
    /\ pre' = Snapshot
    /\ call' = Call("InternalPins", NoNode, "", "ok")
    /\ UNCHANGED <<directPin, recursePin, internalPin, rootNode, blocks,
                   dstore, pc, fl, nflush, cm, cst, obs, rrq>>

\* DirectKeys: the keys of directPin, read without the lock, so at any point
\* of a call that is in progress in another goroutine; obs notes the point
\* (at) and the call (k, pre) it was read in
DirectKeys ==
    /\ pc # "down"
    /\ obs' = [stage |-> "direct", direct |-> directPin, recursive |-> {},
               at |-> pc, k |-> call.k, pre |-> pre]
    /\ UNCHANGED <<directPin, recursePin, internalPin, rootNode, blocks,
                   dstore, pc, fl, call, pre, nflush, cm, cst, rrq>>

\* RecursiveKeys: the keys of recursePin, read without the lock; a caller
\* that has just read DirectKeys at the same point now has both lists
RecursiveKeys ==
    /\ pc # "down"
    /\ obs' = IF /\ obs.stage = "direct"
                 /\ obs.at = pc
                 /\ obs.k = call.k
                 /\ obs.pre = pre
              THEN [obs EXCEPT !.stage = "both", !.recursive = recursePin]
              ELSE [stage |-> "recursive", direct |-> {},
                    recursive |-> recursePin, at |-> pc, k |-> call.k,
                    pre |-> pre]
    /\ UNCHANGED <<directPin, recursePin, internalPin, rootNode, blocks,
                   dstore, pc, fl, call, pre, nflush, cm, cst, rrq>>

\* ------------------------------------------------------------------ Flush
\* root.AddNodeLink(name, n)
AddNodeLink(root, name, n) == [root EXCEPT !.links = Append(@, Link(name, n))]

\* Flush returns an error: nothing of the pinner changes
FlushFail ==
    /\ Return("Flush", NoNode, "", "error")
    /\ fl' = FlNone
    /\ UNCHANGED <<directPin, recursePin, internalPin, rootNode, dstore,
                   pre, nflush, cm, cst, obs, rrq>>

\* Flush takes the lock and starts with an empty root and internalPin
\* Flush that stamps the root it builds with the number of the Flush
FlushBeginStamped ==
    /\ pc = "idle"
    /\ nflush < MaxFlush
    /\ nflush' = nflush + 1
    /\ pre' = Snapshot
    /\ pc' = "flush_direct"
    /\ call' = Call("Flush", NoNode, "", "pending")
    /\ fl' = [root |-> Node(<<nflush>>, <<>>), internal |-> {}, i |-> 0]
    /\ UNCHANGED <<directPin, recursePin, internalPin, rootNode, blocks,
                   dstore, cm, cst, obs, rrq>>

FlushBegin ==
    /\ pc = "idle"
    /\ nflush < MaxFlush
    /\ nflush' = nflush + 1
    /\ pre' = Snapshot
    /\ pc' = "flush_direct"
    /\ call' = Call("Flush", NoNode, "", "pending")
    /\ fl' = [root |-> Node(<<>>, <<>>), internal |-> {}, i |-> 0]
    /\ UNCHANGED <<directPin, recursePin, internalPin, rootNode, blocks,
                   dstore, cm, cst, obs, rrq>>

\* FlushStore that does not hand recordInternal to storeSet
FlushStoreNoRecord(at, keys, name, next) ==
    /\ pc = at
    /\ LET r == storeSet(keys) IN
       \/ /\ blocks' = blocks \cup r.made
          /\ fl' = [fl EXCEPT !.root = AddNodeLink(@, name, r.top)]
          /\ pc' = next
          /\ UNCHANGED <<directPin, recursePin, internalPin, rootNode,
                         dstore, call, pre, nflush, cm, cst, obs, rrq>>
       \/ /\ \E part \in SUBSET (r.made \ {r.top}) : blocks' = blocks \cup part
          /\ FlushFail

\* storeSet of one of the two sets and the link to it; a failing storeSet
\* may have written some of the nodes below the top node
FlushStore(at, keys, name, next) ==
    /\ pc = at
    /\ LET r == storeSet(keys) IN
       \/ /\ blocks' = blocks \cup r.made
          /\ fl' = [fl EXCEPT !.root = AddNodeLink(@, name, r.top),
                              !.internal = @ \cup r.seen]
          /\ pc' = next
          /\ UNCHANGED <<directPin, recursePin, internalPin, rootNode,
                         dstore, call, pre, nflush, cm, cst, obs, rrq>>
       \/ /\ \E part \in SUBSET (r.made \ {r.top}) : blocks' = blocks \cup part
          /\ FlushFail

FlushStoreDirect ==
    FlushStore("flush_direct", directPin, "direct", "flush_recursive")

FlushStoreRecursive ==
    FlushStore("flush_recursive", recursePin, "recursive", "flush_empty")

\* p.dserv.Add(new(mdag.Node)): the empty node
FlushAddEmpty ==
    /\ pc = "flush_empty"
    /\ \/ /\ blocks' = blocks \cup {emptyKey}
          /\ pc' = "flush_root"
          /\ UNCHANGED <<directPin, recursePin, internalPin, rootNode,
                         dstore, fl, call, pre, nflush, cm, cst, obs, rrq>>
       \/ /\ UNCHANGED blocks
          /\ FlushFail

\* Flush that goes on to the pointer without having added the root
FlushAddRootSkip ==
    /\ pc = "flush_root"
    /\ \/ /\ UNCHANGED blocks
          /\ fl' = [fl EXCEPT !.internal = @ \cup {fl.root}]
          /\ pc' = "flush_put"
          /\ UNCHANGED <<directPin, recursePin, internalPin, rootNode,
                         dstore, call, pre, nflush, cm, cst, obs, rrq>>
       \/ /\ UNCHANGED blocks
          /\ FlushFail

\* p.dserv.Add(root)
FlushAddRoot ==
    /\ pc = "flush_root"
    /\ \/ /\ blocks' = blocks \cup {fl.root}
          /\ fl' = [fl EXCEPT !.internal = @ \cup {fl.root}]
          /\ pc' = "flush_put"
          /\ UNCHANGED <<directPin, recursePin, internalPin, rootNode,
                         dstore, call, pre, nflush, cm, cst, obs, rrq>>
       \/ /\ UNCHANGED blocks
          /\ FlushFail

\* Flush that returns without keeping the root it has written
FlushCommitKeepRoot ==
    /\ rootNode' = rootNode
    /\ internalPin' = fl.internal
    /\ fl' = FlNone
    /\ Return("Flush", NoNode, "", "ok")
    /\ UNCHANGED <<directPin, recursePin, pre, nflush, cm, cst, obs, rrq>>

\* Flush has done its work: the new root and internalPin are kept
FlushCommit ==
    /\ rootNode' = fl.root
    /\ internalPin' = fl.internal
    /\ fl' = FlNone
    /\ Return("Flush", NoNode, "", "ok")
    /\ UNCHANGED <<directPin, recursePin, pre, nflush, cm, cst, obs, rrq>>

\* FlushPut whose failing Put has already replaced the pointer
FlushPutPartial ==
    /\ pc = "flush_put"
    /\ \/ /\ dstore' = fl.root
          /\ UNCHANGED blocks
          /\ IF rootNode # NoNode
             THEN /\ pc' = "flush_cleanup"
                  /\ fl' = [fl EXCEPT !.i = 1]
                  /\ UNCHANGED <<directPin, recursePin, internalPin,
                                 rootNode, call, pre, nflush, cm, cst, obs, rrq>>
             ELSE FlushCommit
       \/ /\ dstore' = fl.root
          /\ UNCHANGED blocks
          /\ Return("Flush", NoNode, "", "error")
          /\ fl' = FlNone
          /\ UNCHANGED <<directPin, recursePin, internalPin, rootNode,
                         pre, nflush, cm, cst, obs, rrq>>

\* p.dstore.Put(pinDatastoreKey, k); with no old root Flush is done
FlushPut ==
    /\ pc = "flush_put"
    /\ \/ /\ dstore' = fl.root
          /\ UNCHANGED blocks
          /\ IF rootNode # NoNode
             THEN /\ pc' = "flush_cleanup"
                  /\ fl' = [fl EXCEPT !.i = 1]
                  /\ UNCHANGED <<directPin, recursePin, internalPin,
                                 rootNode, call, pre, nflush,
                                 cm, cst, obs, rrq>>
             ELSE FlushCommit
       \/ /\ UNCHANGED <<blocks, dstore>>
          /\ FlushFail

\* cleanup of the old root: the node of each link that can be fetched is
\* removed, then the old root itself
FlushCleanup ==
    /\ pc = "flush_cleanup"
    /\ UNCHANGED dstore
    /\ IF fl.i <= Len(rootNode.links)
       THEN /\ blocks' = blocks \ {rootNode.links[fl.i].hash}
            /\ fl' = [fl EXCEPT !.i = @ + 1]
            /\ UNCHANGED <<directPin, recursePin, internalPin, rootNode,
                           pc, call, pre, nflush, cm, cst, obs, rrq>>
       ELSE /\ blocks' = blocks \ {rootNode}
            /\ FlushCommit

\* ------------------------------------------------- restart and LoadPinner
\* the process stops at any point: the pinner in memory is lost, the block
\* store and the datastore stay as they are
Crash ==
    /\ pc # "down"
    /\ pc' = "down"
    /\ call' = Call("Crash", NoNode, call.op, call.ret)
    /\ directPin' = {}
    /\ recursePin' = {}
    /\ internalPin' = {}
    /\ rootNode' = NoNode
    /\ fl' = FlNone
    /\ UNCHANGED <<blocks, dstore, pre, nflush, cm, cst, obs, rrq>>

LoadFail(why) ==
    [ok |-> FALSE, why |-> why, direct |-> {}, recursive |-> {},
     internal |-> {}, root |-> NoNode]

\* a value under pinDatastoreKey that is not a byte slice
NotBytes == Node(<<-2>>, <<>>)

\* LoadPinner that goes on with an empty direct set when the direct set does
\* not decode
LoadPinnerPartial(d, store) ==
    IF d = NoNode THEN LoadFail("cannot load pin state")
    ELSE IF d = NotBytes THEN LoadFail("cannot load pin state")
    ELSE IF d \notin store THEN LoadFail("cannot find pinning root object")
    ELSE LET rec == loadSet(d, "recursive", store)
             dir == loadSet(d, "direct", store)
         IN  IF ~rec.ok THEN LoadFail("cannot load recursive pins")
             ELSE [ok |-> TRUE, why |-> "",
                   direct |-> IF dir.ok THEN dir.keys ELSE {},
                   recursive |-> rec.keys,
                   internal |-> {d} \cup rec.seen \cup dir.seen,
                   root |-> d]

\* LoadPinner that does not put the root key in internalPin
LoadPinnerNoRoot(d, store) ==
    IF d = NoNode THEN LoadFail("cannot load pin state")
    ELSE IF d = NotBytes THEN LoadFail("cannot load pin state")
    ELSE IF d \notin store THEN LoadFail("cannot find pinning root object")
    ELSE LET rec == loadSet(d, "recursive", store)
             dir == loadSet(d, "direct", store)
         IN  IF ~rec.ok THEN LoadFail("cannot load recursive pins")
             ELSE IF ~dir.ok THEN LoadFail("cannot load direct pins")
             ELSE [ok |-> TRUE, why |-> "", direct |-> dir.keys,
                   recursive |-> rec.keys,
                   internal |-> rec.seen \cup dir.seen,
                   root |-> d]

\* LoadPinner(d, store): the pinner it returns, or the error
LoadPinner(d, store) ==
    IF d = NoNode THEN LoadFail("cannot load pin state")
    ELSE IF d = NotBytes THEN LoadFail("cannot load pin state")
    ELSE IF d \notin store THEN LoadFail("cannot find pinning root object")
    ELSE LET rec == loadSet(d, "recursive", store)
             dir == loadSet(d, "direct", store)
         IN  IF ~rec.ok THEN LoadFail("cannot load recursive pins")
             ELSE IF ~dir.ok THEN LoadFail("cannot load direct pins")
             ELSE [ok |-> TRUE, why |-> "", direct |-> dir.keys,
                   recursive |-> rec.keys,
                   internal |-> {d} \cup rec.seen \cup dir.seen,
                   root |-> d]

\* a started process calls LoadPinner on its stores
LoadPinnerCall ==
    /\ pc = "down"
    /\ pre' = Snapshot
    /\ UNCHANGED <<blocks, dstore, fl, nflush, cm, cst, obs, rrq>>
    /\ LET r == LoadPinner(dstore, blocks) IN
       IF r.ok
       THEN /\ directPin' = r.direct
            /\ recursePin' = r.recursive
            /\ internalPin' = r.internal
            /\ rootNode' = r.root
            /\ Return("LoadPinner", NoNode, "", "ok")
       ELSE /\ call' = Call("LoadPinner", NoNode, r.why, "error")
            /\ UNCHANGED <<directPin, recursePin, internalPin, rootNode, pc>>

\* a started process calls NewPinner on its stores
NewPinner ==
    /\ pc = "down"
    /\ pre' = Snapshot
    /\ directPin' = {}
    /\ recursePin' = {}
    /\ internalPin' = {}
    /\ rootNode' = NoNode
    /\ Return("NewPinner", NoNode, "", "ok")
    /\ UNCHANGED <<blocks, dstore, fl, nflush, cm, cst, obs, rrq>>

\* ---------------------------------------------------------- specifications
\* Spec: Pin, Unpin, Flush step by step, a stop of the process at any
\* point, and LoadPinner or NewPinner on the stores it leaves behind.
PinAny == \E k \in Keys, recurse \in BOOLEAN : Pin(k, recurse)
UnpinAny == \E k \in Keys, recursive \in BOOLEAN : Unpin(k, recursive)
Next ==
    \/ PinAny
    \/ PinFetch
    \/ UnpinAny
    \/ FlushBegin
    \/ FlushStoreDirect
    \/ FlushStoreRecursive
    \/ FlushAddEmpty
    \/ FlushAddRoot
    \/ FlushPut
    \/ FlushCleanup
    \/ Crash
    \/ LoadPinnerCall
    \/ NewPinner

Spec == Init /\ [][Next]_vars

\* only Pin and Unpin are called, on a pinner that starts empty
PinWide == \E k \in WideKeys, recurse \in BOOLEAN : Pin(k, recurse)
UnpinWide == \E k \in WideKeys, recursive \in BOOLEAN : Unpin(k, recursive)

NextPinUnpin ==
    \/ PinWide
    \/ PinFetch
    \/ UnpinWide

SpecPinUnpin == Init /\ [][NextPinUnpin]_vars

\* the calls that change the sets in memory, the unchecked ones included
PinWithModeWide == \E k \in WideKeys, mode \in Modes : PinWithMode(k, mode)
RemovePinWithModeWide ==
    \E k \in WideKeys, mode \in Modes : RemovePinWithMode(k, mode)

IsPinnedWithTypeWide ==
    \E k \in WideKeys, typeStr \in TypeStrs : IsPinnedWithType(k, typeStr)

NextSets ==
    \/ PinWide
    \/ PinFetch
    \/ UnpinWide
    \/ PinWithModeWide
    \/ RemovePinWithModeWide
    \/ IsPinnedWithTypeWide

SpecSets == Init /\ [][NextSets]_vars

\* the calls on the sets and the queries on a pinner that is also flushed,
\* so that internalPin is not empty
PinWithModeAny == \E k \in Keys, mode \in Modes : PinWithMode(k, mode)
UnpinAll == \E k \in AllKeys, recursive \in BOOLEAN : Unpin(k, recursive)
IsPinnedAll == \E k \in AllKeys : IsPinned(k)

\* the pinner is flushed once; its first Flush has no old root to clean up
FlushFirst == nflush = 0 /\ FlushBegin

NextQuery ==
    \/ PinAny
    \/ PinFetch
    \/ UnpinAll
    \/ PinWithModeAny
    \/ FlushFirst
    \/ FlushStoreDirect
    \/ FlushStoreRecursive
    \/ FlushAddEmpty
    \/ FlushAddRoot
    \/ FlushPut
    \/ IsPinnedAll

SpecQuery == Init /\ [][NextQuery]_vars

\* Pin and Unpin in one goroutine while another lists the keys
NextObserve ==
    \/ PinAny
    \/ PinFetch
    \/ UnpinAny
    \/ DirectKeys
    \/ RecursiveKeys

SpecObserve == Init /\ [][NextObserve]_vars

\* every call that takes the lock, on one key, with one Flush
LockKeys == {ndA}
PinOne == \E k \in LockKeys, recurse \in BOOLEAN : Pin(k, recurse)
UnpinOne == \E k \in LockKeys, recursive \in BOOLEAN : Unpin(k, recursive)
PinWithModeOne == \E k \in LockKeys, mode \in Modes : PinWithMode(k, mode)
RemovePinWithModeOne ==
    \E k \in LockKeys, mode \in Modes : RemovePinWithMode(k, mode)
IsPinnedOne == \E k \in LockKeys : IsPinned(k)
IsPinnedWithTypeOne ==
    \E k \in LockKeys, typeStr \in TypeStrs : IsPinnedWithType(k, typeStr)

NextLock ==
    \/ PinOne
    \/ PinFetch
    \/ UnpinOne
    \/ PinWithModeOne
    \/ RemovePinWithModeOne
    \/ FlushFirst
    \/ FlushStoreDirect
    \/ FlushStoreRecursive
    \/ FlushAddEmpty
    \/ FlushAddRoot
    \/ FlushPut
    \/ IsPinnedOne
    \/ IsPinnedWithTypeOne
    \/ InternalPins

SpecLock == Init /\ [][NextLock]_vars

\* the goroutine that holds the lock keeps running and each call it makes
\* on the DAG service or the datastore returns: a call that is in progress
\* takes its next step
SpecLockFair ==
    /\ Init
    /\ [][NextLock]_vars
    /\ WF_vars(PinFetch)
    /\ WF_vars(FlushStoreDirect)
    /\ WF_vars(FlushStoreRecursive)
    /\ WF_vars(FlushAddEmpty)
    /\ WF_vars(FlushAddRoot)
    /\ WF_vars(FlushPut)

\* the unchecked pins of one key, one Flush, every query and the two key
\* listings
NextFrame ==
    \/ PinWithModeOne
    \/ FlushFirst
    \/ FlushStoreDirect
    \/ FlushStoreRecursive
    \/ FlushAddEmpty
    \/ FlushAddRoot
    \/ FlushPut
    \/ IsPinnedOne
    \/ IsPinnedWithTypeOne
    \/ InternalPins
    \/ DirectKeys
    \/ RecursiveKeys

SpecFrame == Init /\ [][NextFrame]_vars

\* the unchecked calls on one key, one Flush, and the typed query of a user
\* key and of a key of the record
IsPinnedWithTypeAny ==
    \E k \in Keys, typeStr \in TypeStrs : IsPinnedWithType(k, typeStr)

NextMember ==
    \/ PinWithModeOne
    \/ RemovePinWithModeOne
    \/ FlushFirst
    \/ FlushStoreDirect
    \/ FlushStoreRecursive
    \/ FlushAddEmpty
    \/ FlushAddRoot
    \/ FlushPut
    \/ IsPinnedWithTypeAny

SpecMember == Init /\ [][NextMember]_vars

\* the indirect query over graphs that share nodes: the roots A, D and E, of
\* which E reaches A twice, in stores that lack none, one or both leaves
WalkRoots == {ndA, ndD, ndE}
WalkKeys == UserNodes \cup {ndE, emptyKey}

InitWalk ==
    /\ directPin = {}
    /\ recursePin = {}
    /\ internalPin = {}
    /\ rootNode = NoNode
    /\ \E gone \in SUBSET {ndB, ndC, ndD} :
           blocks = (UserNodes \cup {ndE}) \ gone
    /\ dstore = NoNode
    /\ pc = "idle"
    /\ fl = FlNone
    /\ call = Call("NewPinner", NoNode, "", "ok")
    /\ pre = [directPin |-> {}, recursePin |-> {}, internalPin |-> {},
              rootNode |-> NoNode, blocks |-> blocks, dstore |-> NoNode]
    /\ nflush = 0
    /\ cm = EmptyMap
    /\ cst = CodecIdle
    /\ obs = ObsNone
    /\ rrq = newRRQueue

PinWithModeWalk == \E k \in WalkRoots : PinWithMode(k, "Recursive")
RemovePinWithModeWalk ==
    \E k \in WalkRoots : RemovePinWithMode(k, "Recursive")
IsPinnedWithTypeWalk == \E k \in WalkKeys : IsPinnedWithType(k, "indirect")

NextWalk ==
    \/ PinWithModeWalk
    \/ RemovePinWithModeWalk
    \/ IsPinnedWithTypeWalk

SpecWalk == InitWalk /\ [][NextWalk]_vars

\* LoadPinner on its own: a process that is down, a datastore whose pointer
\* is absent, not bytes, a node that is no pin record, or the record of two
\* sets, and a block store that holds any part of that record
PinRecord(direct, recursive) ==
    AddNodeLink(AddNodeLink(Node(<<>>, <<>>), "direct", storeSet(direct).top),
                "recursive", storeSet(recursive).top)

\* the nodes a Flush of the two sets writes
RecordParts(direct, recursive) ==
    {PinRecord(direct, recursive), emptyKey}
        \cup storeSet(direct).made \cup storeSet(recursive).made

InitLoad ==
    /\ directPin = {}
    /\ recursePin = {}
    /\ internalPin = {}
    /\ rootNode = NoNode
    /\ \/ /\ dstore \in {NoNode, NotBytes, ndB}
          /\ blocks \in SUBSET {ndB, emptyKey}
       \/ \E d, r \in SUBSET Keys :
             /\ dstore = PinRecord(d, r)
             /\ blocks \in SUBSET RecordParts(d, r)
    /\ pc = "down"
    /\ fl = FlNone
    /\ call = Call("Crash", NoNode, "NewPinner", "ok")
    /\ pre = [directPin |-> {}, recursePin |-> {}, internalPin |-> {},
              rootNode |-> NoNode, blocks |-> blocks, dstore |-> dstore]
    /\ nflush = 0
    /\ cm = EmptyMap
    /\ cst = CodecIdle
    /\ obs = ObsNone
    /\ rrq = newRRQueue

NextLoad == LoadPinnerCall

SpecLoad == InitLoad /\ [][NextLoad]_vars

\* ------------------------------------------ the codec on its own (set_test)
\* the mappings given to storeMultiset: any keys, multiplicities 0..MaxCount
Mappings == UNION {[S -> 0..MaxCount] : S \in SUBSET AllKeys}

InitCodec ==
    /\ PinnerInit
    /\ cm \in Mappings
    /\ cst = CodecIdle
    /\ obs = ObsNone
    /\ rrq = newRRQueue

\* n, err := storeMultiset(ctx, dag, refcounts, ignoreKeys)
CodecStore ==
    /\ cst.stage = "none"
    /\ LET r == storeMultiset(cm) IN
       /\ blocks' = blocks \cup r.made
       /\ cst' = [stage |-> "stored", top |-> r.top, ok |-> TRUE,
                  m |-> EmptyMap]
    /\ UNCHANGED <<directPin, recursePin, internalPin, rootNode, dstore,
                   pc, fl, call, pre, nflush, cm, obs, rrq>>

\* the node is linked from a root and read back with loadMultiset
CodecLoad ==
    /\ cst.stage = "stored"
    /\ LET root == AddNodeLink(Node(<<>>, <<>>), "dummylink", cst.top)
           r == loadMultiset(root, "dummylink", blocks)
       IN  cst' = [stage |-> "loaded", top |-> cst.top, ok |-> r.ok,
                   m |-> r.m]
    /\ UNCHANGED <<directPin, recursePin, internalPin, rootNode, blocks,
                   dstore, pc, fl, call, pre, nflush, cm, obs, rrq>>

NextCodec ==
    \/ CodecStore
    \/ CodecLoad

SpecCodec == InitCodec /\ [][NextCodec]_vars

\* the same on the mappings of fewer keys, for what is checked in every
\* order of their entries
OrderMappings == UNION {[S -> 0..MaxCount] : S \in SUBSET WideKeys}

InitOrder ==
    /\ PinnerInit
    /\ cm \in OrderMappings
    /\ cst = CodecIdle
    /\ obs = ObsNone
    /\ rrq = newRRQueue

SpecOrder == InitOrder /\ [][NextCodec]_vars

\* ------------------------------- round-robin queue (round_robin_queue.go)
MaxQueue == 3
MaxWeight == 2
RoundBurst == 2
Peers == {"p1", "p2"}

\* the other variables of the model are those of the pinner and its checks
QueueOnly ==
    UNCHANGED <<directPin, recursePin, internalPin, rootNode, blocks, dstore,
                pc, fl, call, pre, nflush, cm, cst, obs>>

\* a call on the queue: what it leaves in weights and allocations, and its
\* result
RRCall(op, weights, allocations, ret) ==
    rrq' = [weights |-> weights, allocations |-> allocations,
            op |-> op, ret |-> ret, was |-> rrq.allocations]

RECURSIVE SumWeights(_, _)
SumWeights(w, S) ==
    IF S = {} THEN 0
    ELSE LET id == CHOOSE x \in S : TRUE
         IN  w[id] + SumWeights(w, S \ {id})

\* int((weight / totalWeight) * float64(roundBurst)); with a total of 0 the
\* quotient is NaN and its conversion to int depends on the platform
Allocations(w) ==
    LET total == SumWeights(w, DOMAIN w)
    IN  IF total = 0 THEN [DOMAIN w -> {-1, 0, 1}]
        ELSE {[id \in DOMAIN w |-> (w[id] * RoundBurst) \div total]}

\* InitRound: one RRPeer per peer with a positive allocation, appended in
\* the order the map of weights is iterated in
InitRound ==
    /\ \E a \in Allocations(rrq.weights) :
       \E order \in Orders({id \in DOMAIN a : a[id] > 0}) :
          /\ Len(rrq.allocations) + Len(order) <= MaxQueue
          /\ RRCall("InitRound", rrq.weights,
                    rrq.allocations \o
                        [i \in 1..Len(order) |->
                            [id |-> order[i], allocation |-> a[order[i]]]],
                    "")
    /\ QueueOnly

\* UpdateWeight: the weight the strategy gives the peer's receipt
UpdateWeight(id, w) ==
    /\ RRCall("UpdateWeight",
              [x \in DOMAIN rrq.weights \cup {id} |->
                  IF x = id THEN w ELSE rrq.weights[x]],
              rrq.allocations, "")
    /\ QueueOnly

Pop ==
    /\ RRCall("Pop", rrq.weights,
              IF Len(rrq.allocations) # 0 THEN Tail(rrq.allocations)
              ELSE rrq.allocations,
              "")
    /\ QueueOnly

\* Head: the first RRPeer, or nil
HeadOfQueue ==
    /\ RRCall("Head", rrq.weights, rrq.allocations,
              IF Len(rrq.allocations) = 0 THEN "nil"
              ELSE rrq.allocations[1].id)
    /\ QueueOnly

\* Shift: allocations[1:] and allocations[0] of an empty slice are out of
\* range, and the call panics before it assigns
Shift ==
    /\ IF Len(rrq.allocations) = 0
       THEN RRCall("Shift", rrq.weights, rrq.allocations, "panic")
       ELSE RRCall("Shift", rrq.weights,
                   Append(Tail(rrq.allocations), rrq.allocations[1]), "")
    /\ QueueOnly

ResetAllocations ==
    /\ RRCall("ResetAllocations", rrq.weights, <<>>, "")
    /\ QueueOnly

NumPeers ==
    /\ RRCall("NumPeers", rrq.weights, rrq.allocations,
              Len(rrq.allocations))
    /\ QueueOnly

UpdateWeightAny ==
    \E id \in Peers, w \in 0..MaxWeight : UpdateWeight(id, w)

NextQueue ==
    \/ InitRound
    \/ UpdateWeightAny
    \/ Pop
    \/ HeadOfQueue
    \/ Shift
    \/ ResetAllocations
    \/ NumPeers

SpecQueue == Init /\ [][NextQueue]_vars

\* ------------------------------------------------------------------ claims
\* a call of the named operation has returned the named result
Returned(op, ret) == pc = "idle" /\ call.op = op /\ call.ret = ret

\* the nodes of the encoding below and including n: interior nodes link to
\* their buckets, leaves link to user keys only
RECURSIVE EncNodes(_)
EncNodes(n) ==
    IF Len(n.data) > 0 /\ n.data[1] = ShardTag
    THEN {n} \cup UNION {EncNodes(n.links[i].hash) : i \in 1..Len(n.links)}
    ELSE {n}

\* the nodes of the pin record with the given root
RecordNodes(root) ==
    {root} \cup UNION {EncNodes(root.links[i].hash) : i \in 1..Len(root.links)}

\* the nodes the links of a node point to
LinkTargets(n) == {n.links[i].hash : i \in 1..Len(n.links)}

\* the descendants of a node
RECURSIVE Descendants(_)
Descendants(n) ==
    LinkTargets(n) \cup UNION {Descendants(c) : c \in LinkTargets(n)}

\* the content the user has pinned
UserContent ==
    directPin \cup recursePin \cup UNION {Descendants(r) : r \in recursePin}

\* C1: after any sequence of Pin and Unpin calls on a pinner that starts
\* empty, no key is in both directPin and recursePin.
C1_NoKeyInBothSets == directPin \cap recursePin = {}

\* C1 witness: a recursive Pin of a directly pinned key has succeeded
C1_Witness ==
    /\ Returned("Pin", "ok")
    /\ call.arg = "true"
    /\ call.k \in pre.directPin
    /\ call.k \in recursePin

\* C2: after every successful Flush the new root node, the two set nodes it
\* links to and the empty node are present in the store.
C2_FlushKeepsNewRecord ==
    Returned("Flush", "ok") =>
        ({rootNode, emptyKey} \cup LinkTargets(rootNode)) \subseteq blocks

\* C3: when Flush is interrupted while a loadable record exists, LoadPinner
\* on the stores succeeds and yields the sets of that record or the sets of
\* the interrupted Flush.
C3_CrashInFlushLoads ==
    (/\ pc = "down"
     /\ call.op = "Crash"
     /\ call.arg = "Flush"
     /\ call.ret = "pending"
     /\ LoadPinner(pre.dstore, pre.blocks).ok) =>
        LET old == LoadPinner(pre.dstore, pre.blocks)
            new == LoadPinner(dstore, blocks)
        IN  /\ new.ok
            /\ \/ /\ new.direct = old.direct
                  /\ new.recursive = old.recursive
               \/ /\ new.direct = pre.directPin
                  /\ new.recursive = pre.recursePin

\* C4: after a successful Flush, LoadPinner on the same stores returns a
\* pinner with the direct and recursive keys of the flushed pinner.
C4_FlushThenLoad ==
    Returned("Flush", "ok") =>
        LET r == LoadPinner(dstore, blocks)
        IN  /\ r.ok
            /\ r.direct = directPin
            /\ r.recursive = recursePin

\* C5: whenever the pinner has been flushed or loaded and no call is in
\* progress, internalPin contains the key stored in the durable pointer.
C5_RootKeyIsInternal ==
    (pc = "idle" /\ rootNode # NoNode) => dstore \in internalPin

\* C5 witness: a Flush has failed after an earlier Flush or load succeeded
C5_Witness ==
    /\ Returned("Flush", "error")
    /\ rootNode # NoNode
    /\ dstore = rootNode

\* C6: after a successful Flush or LoadPinner every node of the pin record
\* (the root, the set nodes, the shards and leaves below them, the empty
\* node they refer to) is in internalPin.
C6_RecordIsInternal ==
    (Returned("Flush", "ok") \/ Returned("LoadPinner", "ok")) =>
        RecordNodes(rootNode) \subseteq internalPin

\* C6 witness: a set of the flushed record is sharded
C6_Witness ==
    /\ Returned("Flush", "ok")
    /\ \E n \in LinkTargets(rootNode) :
          /\ Len(n.data) > 0
          /\ n.data[1] = ShardTag

\* C7: no step of Flush removes from the store a block that is in
\* directPin or recursePin or below a recursively pinned root.
C7_FlushKeepsUserContent ==
    [][(blocks \ blocks') \cap UserContent = {}]_vars

\* C8: when Flush returns an error the durable pointer, the pinner's root
\* node and internalPin are as before the call and no block was removed.
C8_FailedFlushChangesNothing ==
    Returned("Flush", "error") =>
        /\ dstore = pre.dstore
        /\ pre.blocks \subseteq blocks
        /\ rootNode = pre.rootNode
        /\ internalPin = pre.internalPin

\* C8 witness: the pointer write of a Flush fails while an earlier record
\* exists and the sets have changed since
C8_Witness ==
    /\ Returned("Flush", "error")
    /\ rootNode # NoNode
    /\ dstore = rootNode
    /\ LoadPinner(dstore, blocks).ok
    /\ LoadPinner(dstore, blocks).direct # directPin

\* C9: loadMultiset of the node made by storeMultiset(m) returns m, for
\* every mapping m of keys to positive multiplicities.
C9_MultisetRoundtrip ==
    (cst.stage = "loaded" /\ \A k \in DOMAIN cm : cm[k] > 0) =>
        (cst.ok /\ cst.m = cm)

\* C9 witness: a mapping with a multiplicity above 1 that is sharded on
\* more than one level has been stored and loaded
C9_Witness ==
    /\ cst.stage = "loaded"
    /\ \A k \in DOMAIN cm : cm[k] > 0
    /\ \E k \in DOMAIN cm : cm[k] > 1
    /\ cst.top.data = <<ShardTag>>
    /\ \E n \in LinkTargets(cst.top) : n.data = <<ShardTag>>

\* C10 as stated: a recursive Pin of A fails whenever a node below A cannot
\* be fetched.
C10_PinFailsWhenUnfetchable ==
    (/\ pc = "idle"
     /\ call.op = "Pin"
     /\ call.arg = "true"
     /\ ~FetchGraph(call.k)) => call.ret = "fetch"

\* C10 amended: a recursive Pin of a key A that is not in recursePin fails
\* whenever a node below A cannot be fetched; after the failure recursePin
\* is unchanged and A is not reported as recursively pinned.
C10_PinOfNewKeyFailsWhenUnfetchable ==
    (/\ pc = "idle"
     /\ call.op = "Pin"
     /\ call.arg = "true"
     /\ call.k \notin pre.recursePin
     /\ ~FetchGraph(call.k)) =>
        /\ call.ret = "fetch"
        /\ recursePin = pre.recursePin
        /\ isPinnedWithType(call.k, "recursive") = {ResNot}

\* C10 witness: the recursive Pin of A has failed because C is missing
C10_Witness ==
    /\ Returned("Pin", "fetch")
    /\ call.arg = "true"
    /\ call.k = ndA
    /\ ndB \in blocks
    /\ ndC \notin blocks

\* the call that has just returned
Did(op, arg) == pc = "idle" /\ call.op = op /\ call.arg = arg

\* the call left directPin and recursePin as they were
SetsKept == directPin = pre.directPin /\ recursePin = pre.recursePin

\* the call left the three pin sets as they were
AllSetsKept == SetsKept /\ internalPin = pre.internalPin

\* the roots that were pinned recursively before the call and reach k
RootsOver(k) == {r \in pre.recursePin : k \in Descendants(r)}

\* the key was in none of the three sets before the call
InNoSet(k) ==
    k \notin pre.directPin \cup pre.recursePin \cup pre.internalPin

\* every recursive root and every node below it could be fetched
WalkFetchable ==
    \A r \in pre.recursePin : {r} \cup Descendants(r) \subseteq pre.blocks

\* C11: Pin(k, false) of a key that is pinned recursively returns the
\* "already pinned recursively" error and changes no set, whether or not k
\* can be fetched.
C11_DirectPinOfRecursiveKeyConflicts ==
    (Did("Pin", "false") /\ call.k \in pre.recursePin)
        => (call.ret = "already" /\ SetsKept)

\* C12: a successful Pin(k, true) of a key in directPin removes it from
\* directPin and adds it to recursePin, and changes no other membership.
C12_RecursivePinMovesDirectKey ==
    (Returned("Pin", "ok") /\ call.arg = "true" /\ call.k \in pre.directPin)
        => /\ directPin = pre.directPin \ {call.k}
           /\ recursePin = pre.recursePin \cup {call.k}

\* C12, amended: a successful Pin(k, true) of a key that is in directPin and
\* not in recursePin removes it from directPin and adds it to recursePin, and
\* changes no other membership.
C12_RecursivePinMovesDirectOnlyKey ==
    (/\ Returned("Pin", "ok")
     /\ call.arg = "true"
     /\ call.k \in pre.directPin \ pre.recursePin)
        => /\ directPin = pre.directPin \ {call.k}
           /\ recursePin = pre.recursePin \cup {call.k}
           /\ internalPin = pre.internalPin

C12_Witness ==
    /\ Returned("Pin", "ok")
    /\ call.arg = "true"
    /\ call.k \in pre.directPin \ pre.recursePin
    /\ directPin # {}
    /\ pre.recursePin # {}

\* C13: Pin(k, true) of a key that is already in recursePin succeeds and
\* changes neither directPin, recursePin nor internalPin, also when the graph
\* of k cannot be fetched.
C13_RecursivePinOfRecursiveKeyIsNoOp ==
    (Did("Pin", "true") /\ call.k \in pre.recursePin)
        => (call.ret = "ok" /\ AllSetsKept)

C13_Witness ==
    /\ Returned("Pin", "ok")
    /\ call.arg = "true"
    /\ call.k \in pre.recursePin
    /\ ~ ({call.k} \cup Descendants(call.k) \subseteq blocks)
    /\ internalPin # {}

\* C14: Pin(k, false) of a key that is not in recursePin fails with the fetch
\* error and changes no set when k cannot be fetched; otherwise it succeeds,
\* k is in directPin afterwards and recursePin is unchanged.
C14_DirectPin ==
    (Did("Pin", "false") /\ call.k \notin pre.recursePin)
        => IF call.k \notin pre.blocks
           THEN call.ret = "fetch" /\ AllSetsKept
           ELSE /\ call.ret = "ok"
                /\ directPin = pre.directPin \cup {call.k}
                /\ recursePin = pre.recursePin
                /\ internalPin = pre.internalPin

C14_Witness ==
    /\ Returned("Pin", "fetch")
    /\ call.arg = "false"
    /\ call.k \notin pre.recursePin
    /\ call.k \notin blocks
    /\ directPin # {}

\* C15: Unpin(k, r) of a key that is in none of the three sets and is no
\* descendant of a recursive root returns ErrNotPinned and changes no set.
C15_UnpinOfUnpinnedKey ==
    (pc = "idle" /\ call.op = "Unpin" /\ InNoSet(call.k)
     /\ RootsOver(call.k) = {})
        => (call.ret = "notpinned" /\ AllSetsKept)

\* C15, amended: Unpin(k, r) of a key that is in none of the three sets and
\* is no descendant of a recursive root changes no set; it returns
\* ErrNotPinned when every recursive root and every node below one can be
\* fetched, and ErrNotPinned or the fetch error otherwise.
C15_UnpinOfUnpinnedKeyFetchable ==
    (pc = "idle" /\ call.op = "Unpin" /\ InNoSet(call.k)
     /\ RootsOver(call.k) = {})
        => /\ AllSetsKept
           /\ call.ret \in {"notpinned", "fetch"}
           /\ WalkFetchable => call.ret = "notpinned"

C15_Witness ==
    /\ Returned("Unpin", "notpinned")
    /\ InNoSet(call.k)
    /\ RootsOver(call.k) = {}
    /\ pre.recursePin # {}
    /\ internalPin # {}

\* C16: for a key in recursePin, Unpin(k, false) fails and changes nothing;
\* Unpin(k, true) succeeds and removes k from recursePin only.
C16_UnpinOfRecursiveKey ==
    (pc = "idle" /\ call.op = "Unpin" /\ call.k \in pre.recursePin)
        => IF call.arg = "false"
           THEN call.ret = "recursively" /\ AllSetsKept
           ELSE /\ call.ret = "ok"
                /\ recursePin = pre.recursePin \ {call.k}
                /\ directPin = pre.directPin
                /\ internalPin = pre.internalPin

C16_Witness ==
    /\ Returned("Unpin", "recursively")
    /\ call.arg = "false"
    /\ call.k \in recursePin
    /\ recursePin # {call.k}

\* C17: for a key in directPin and not in recursePin, Unpin(k, r) succeeds
\* for both values of r, removes k from directPin and leaves recursePin
\* unchanged.
C17_UnpinOfDirectKey ==
    (pc = "idle" /\ call.op = "Unpin"
     /\ call.k \in pre.directPin \ pre.recursePin)
        => /\ call.ret = "ok"
           /\ directPin = pre.directPin \ {call.k}
           /\ recursePin = pre.recursePin
           /\ internalPin = pre.internalPin

C17_Witness ==
    /\ Returned("Unpin", "ok")
    /\ call.arg = "true"
    /\ call.k \in pre.directPin \ pre.recursePin
    /\ directPin # {}
    /\ recursePin # {}

\* C18: Unpin(k, r) of a key that is in no set and is a descendant of a
\* recursive root fails with an error that names a recursive root under
\* which k is reachable, and changes no set.
C18_UnpinOfIndirectKey ==
    (pc = "idle" /\ call.op = "Unpin" /\ InNoSet(call.k)
     /\ RootsOver(call.k) # {})
        => /\ call.ret = "indirectly"
           /\ call.under \in RootsOver(call.k)
           /\ AllSetsKept

\* C18, amended: Unpin(k, r) of a key that is in no set and is a descendant
\* of a recursive root fails and changes no set; the error names a recursive
\* root under which k is reachable when every recursive root and every node
\* below one can be fetched, and is that error or the fetch error otherwise.
C18_UnpinOfIndirectKeyFetchable ==
    (pc = "idle" /\ call.op = "Unpin" /\ InNoSet(call.k)
     /\ RootsOver(call.k) # {})
        => /\ AllSetsKept
           /\ call.ret \in {"indirectly", "fetch"}
           /\ call.ret = "indirectly" => call.under \in RootsOver(call.k)
           /\ WalkFetchable => call.ret = "indirectly"

C18_Witness ==
    /\ Returned("Unpin", "indirectly")
    /\ InNoSet(call.k)
    /\ call.under = ndD
    /\ call.k = ndC
    /\ recursePin = {ndD}

\* C19: Unpin(k, r) of a key that is in internalPin and in neither directPin
\* nor recursePin returns an error and changes none of the three sets.
C19_UnpinOfInternalKey ==
    (pc = "idle" /\ call.op = "Unpin" /\ call.k \in pre.internalPin
     /\ call.k \notin pre.directPin \cup pre.recursePin)
        => /\ call.ret # "ok"
           /\ AllSetsKept

C19_Witness ==
    /\ Returned("Unpin", "indirectly")
    /\ call.k \in pre.internalPin
    /\ call.k \notin pre.directPin \cup pre.recursePin
    /\ call.under = NoNode
    /\ recursePin # {}

\* C20: IsPinned(k) classifies in the order recursive, direct, internal,
\* indirect: "recursive" for a key in recursePin, else "direct" for one in
\* directPin, else "internal" for one in internalPin, else the recursive root
\* under which k is reachable, else not pinned.
C20_IsPinnedOrder ==
    (pc = "idle" /\ call.op = "IsPinned")
        => IF call.k \in recursePin THEN call.ret = "recursive"
           ELSE IF call.k \in directPin THEN call.ret = "direct"
           ELSE IF call.k \in internalPin THEN call.ret = "internal"
           ELSE IF RootsOver(call.k) # {}
           THEN call.ret = "indirect" /\ call.under \in RootsOver(call.k)
           ELSE call.ret = "notpinned"

\* C20, amended: IsPinned(k) classifies in the order recursive, direct,
\* internal, indirect: "recursive" for a key in recursePin, else "direct" for
\* one in directPin, else "internal" for one in internalPin; else it walks
\* the recursive roots and returns a root under which k is reachable, not
\* pinned when no root reaches k, or the fetch error when a root or a node
\* below one cannot be fetched.
C20_IsPinnedOrderFetchable ==
    (pc = "idle" /\ call.op = "IsPinned")
        => IF call.k \in recursePin THEN call.ret = "recursive"
           ELSE IF call.k \in directPin THEN call.ret = "direct"
           ELSE IF call.k \in internalPin THEN call.ret = "internal"
           ELSE /\ call.ret \in {"indirect", "notpinned", "error"}
                /\ call.ret = "indirect" => call.under \in RootsOver(call.k)
                /\ call.ret = "notpinned" => RootsOver(call.k) = {}
                /\ call.ret = "error" => ~WalkFetchable

C20_Witness ==
    /\ pc = "idle"
    /\ call.op = "IsPinned"
    /\ call.ret = "recursive"
    /\ call.k \in directPin
    /\ call.k \in internalPin

\* the roots pinned recursively now that reach k
RootsNowOver(k) == {r \in recursePin : k \in Descendants(r)}

\* every result the query of type "all" can give for k now reports it pinned
\* indirectly under a recursive root that reaches it
ReportedIndirect(k) ==
    \A r \in isPinnedWithType(k, "all") :
        /\ ~r.err
        /\ r.pinned
        /\ r.reason = "indirect"
        /\ r.under \in RootsNowOver(k)

\* C21: when every recursive root and every node under one can be fetched,
\* IsPinnedWithType(k, "indirect") returns a recursive root that reaches k
\* exactly when some recursive root reaches k, and not pinned otherwise, also
\* for a k that is itself a recursive root; after a successful Unpin(k, true)
\* of a root that lies below another root, k is still reported pinned,
\* indirectly under such a root.
C21_IndirectIsReachability ==
    /\ (Did("IsPinnedWithType", "indirect") /\ WalkFetchable)
           => IF RootsOver(call.k) # {}
              THEN call.ret = "indirect" /\ call.under \in RootsOver(call.k)
              ELSE call.ret = "notpinned"
    /\ (/\ Returned("Unpin", "ok")
        /\ call.arg = "true"
        /\ call.k \in pre.recursePin
        /\ call.k \notin directPin \cup internalPin
        /\ RootsNowOver(call.k) # {}
        /\ \A r \in recursePin : {r} \cup Descendants(r) \subseteq blocks)
           => ReportedIndirect(call.k)

C21_Witness ==
    /\ Returned("IsPinnedWithType", "indirect")
    /\ call.arg = "indirect"
    /\ call.k = ndA
    /\ call.under = ndD
    /\ {ndA, ndD} \subseteq recursePin
    /\ WalkFetchable

\* C22: IsPinnedWithType(k, s) with a type string s that is none of "all",
\* "direct", "indirect", "recursive", "internal" returns an error and not
\* pinned, names no root, and changes nothing of the pinner, whatever k and
\* whatever the state.
C22_UnknownTypeIsAnError ==
    (pc = "idle" /\ call.op = "IsPinnedWithType"
     /\ call.arg \notin {"all", "direct", "indirect", "recursive", "internal"})
        => /\ call.ret = "error"
           /\ call.under = NoNode
           /\ Snapshot = pre

C22_Witness ==
    /\ Returned("IsPinnedWithType", "error")
    /\ call.arg = "bogus"
    /\ call.k \in recursePin
    /\ RootsOver(call.k) # {}
    /\ WalkFetchable

\* C23: PinWithMode(k, m) and RemovePinWithMode(k, m) with a mode that is
\* neither Recursive nor Direct panic and change no set.
C23_UnknownModePanics ==
    (/\ pc = "idle"
     /\ call.op \in {"PinWithMode", "RemovePinWithMode"}
     /\ call.arg \notin {"Recursive", "Direct"})
        => (call.ret = "panic" /\ AllSetsKept)

\* the nodes that must be fetched to decode the set whose top node is n: n
\* itself and, below an interior node, every bucket that is not the empty
\* node
RECURSIVE Needed(_)
Needed(n) ==
    IF Len(n.data) > 0 /\ n.data[1] = ShardTag
    THEN {n} \cup UNION {Needed(n.links[i].hash) :
                            i \in {j \in 1..Len(n.links) :
                                      n.links[j].hash # emptyKey}}
    ELSE {n}

\* the set the named link of the stored root points to can be decoded
Decodable(name) ==
    /\ LinkNamed(dstore, name, 1) # NoNode
    /\ Needed(LinkNamed(dstore, name, 1)) \subseteq blocks

\* C24: LoadPinner returns an error and no pinner when the pointer is absent
\* or not bytes ("cannot load pin state"), when the root node cannot be
\* fetched, or when one of the two sets cannot be decoded; otherwise it
\* returns the pinner with both sets of the record: never one with part of
\* it.
C24_LoadPinnerAllOrNothing ==
    (call.op = "LoadPinner") =>
        IF \/ dstore \in {NoNode, NotBytes}
           \/ dstore \notin blocks
           \/ ~Decodable("recursive")
           \/ ~Decodable("direct")
        THEN /\ call.ret = "error"
             /\ pc = "down"
             /\ directPin = {} /\ recursePin = {} /\ internalPin = {}
             /\ rootNode = NoNode
             /\ dstore \in {NoNode, NotBytes}
                    => call.arg = "cannot load pin state"
        ELSE /\ call.ret = "ok"
             /\ pc = "idle"
             /\ rootNode = dstore
             /\ dstore \in internalPin
             /\ PinRecord(directPin, recursePin) = dstore

C24_Witness ==
    /\ call.op = "LoadPinner"
    /\ call.ret = "error"
    /\ call.arg = "cannot load direct pins"
    /\ Decodable("recursive")
    /\ LinkNamed(dstore, "recursive", 1) # emptyKey
    /\ pc = "down"

\* C25: DirectKeys and RecursiveKeys never show pin state that exists only
\* in the middle of a call: the two lists a goroutine reads while a Pin or
\* Unpin is in progress are the two sets as they were before that call or as
\* they are after it.
C25_ListedKeysAreNeverHalfway ==
    (/\ pc = "idle"
     /\ call.op \in {"Pin", "Unpin"}
     /\ obs.stage = "both"
     /\ obs.at # "idle"
     /\ obs.k = call.k
     /\ obs.pre = pre)
        => \/ obs.direct = pre.directPin /\ obs.recursive = pre.recursePin
           \/ obs.direct = directPin /\ obs.recursive = recursePin

\* C26: the lock is held for the whole of each Pin, Unpin, PinWithMode,
\* RemovePinWithMode, Flush and InternalPins call, the fetch inside Pin and
\* every step of Flush included: while one of them is in progress no other
\* call and no IsPinned or IsPinnedWithType query starts, so the only call
\* that moves is the one in progress.
C26_OneCallInsideAtATime ==
    [][pc \notin {"idle", "down"}
          => /\ call'.op = call.op
             /\ call'.k = call.k
             /\ call'.arg = call.arg
             /\ pre' = pre]_vars

C26_Witness ==
    /\ pc = "flush_put"
    /\ call.op = "Flush"
    /\ call.ret = "pending"
    /\ recursePin # {}
    /\ ENABLED FlushPut
    /\ ~ENABLED PinOne
    /\ ~ENABLED IsPinnedOne
    /\ ~ENABLED InternalPins

\* the two sets a pin record holds, read from the record itself
RecordSets(root) ==
    [direct    |-> loadSet(root, "direct", RecordNodes(root)).keys,
     recursive |-> loadSet(root, "recursive", RecordNodes(root)).keys]

\* C27: a successful Flush of the sets that the record under the pointer
\* already holds (no Pin or Unpin has changed them since it was written)
\* leaves the pointer with the identifier it had.
C27_FlushTwiceSamePointer ==
    (/\ Returned("Flush", "ok")
     /\ pre.dstore # NoNode
     /\ RecordSets(pre.dstore).direct = directPin
     /\ RecordSets(pre.dstore).recursive = recursePin)
        => dstore = pre.dstore

C27_Witness ==
    /\ Returned("Flush", "ok")
    /\ pre.dstore # NoNode
    /\ dstore = pre.dstore
    /\ RecordSets(dstore).recursive = recursePin
    /\ recursePin = {ndA, emptyKey}
    /\ pre.recursePin = recursePin

RECURSIVE LeafKeys(_)
LeafKeys(n) ==
    IF Len(n.data) > 0 /\ n.data[1] = ShardTag
    THEN UNION {LeafKeys(n.links[i].hash) : i \in 1..Len(n.links)}
    ELSE LinkTargets(n)

C30_EmptyNodeStoredByFlush ==
    /\ storeSet({}).top = emptyKey
    /\ storeMultiset(EmptyMap).top = emptyKey
    /\ Returned("Flush", "ok") => emptyKey \in blocks

\* the queued peers with the number of times each is queued
Queued(q) ==
    [e \in {q[i] : i \in 1..Len(q)} |->
        Cardinality({i \in 1..Len(q) : q[i] = e})]

\* C40: the queue calls are safe in every state of the queue: Head returns
\* nil and Pop does nothing on an empty queue; Shift never fails, keeps
\* NumPeers and the queued peers, and moves the former head to the tail,
\* which on an empty queue is to do nothing.
C40_QueueCallsAreSafe ==
    /\ (rrq.op = "Head" /\ rrq.was = <<>>) => rrq.ret = "nil"
    /\ (rrq.op = "Pop" /\ rrq.was = <<>>)
           => (rrq.ret # "panic" /\ rrq.allocations = <<>>)
    /\ (rrq.op = "Shift")
           => /\ rrq.ret # "panic"
              /\ Len(rrq.allocations) = Len(rrq.was)
              /\ Queued(rrq.allocations) = Queued(rrq.was)
              /\ rrq.allocations =
                     IF rrq.was = <<>> THEN <<>>
                     ELSE Append(Tail(rrq.was), rrq.was[1])

\* C31: PinWithMode(k, m) and RemovePinWithMode(k, m) with m Direct or
\* Recursive return normally and add k to, or remove k from, the set m names,
\* whatever the other set holds and whether or not k can be fetched; the
\* other set and internalPin stay as they were.
C31_ModeCallsAreUnchecked ==
    (pc = "idle" /\ call.arg \in {"Direct", "Recursive"}
     /\ call.op \in {"PinWithMode", "RemovePinWithMode"})
        => /\ call.ret = "ok"
           /\ internalPin = pre.internalPin
           /\ directPin =
                  IF call.arg # "Direct" THEN pre.directPin
                  ELSE IF call.op = "PinWithMode"
                  THEN pre.directPin \cup {call.k}
                  ELSE pre.directPin \ {call.k}
           /\ recursePin =
                  IF call.arg # "Recursive" THEN pre.recursePin
                  ELSE IF call.op = "PinWithMode"
                  THEN pre.recursePin \cup {call.k}
                  ELSE pre.recursePin \ {call.k}

C31_Witness ==
    /\ Returned("PinWithMode", "ok")
    /\ call.arg = "Direct"
    /\ call.k \in directPin \cap recursePin
    /\ call.k \in pre.recursePin
    /\ call.k \notin pre.directPin
    /\ call.k \notin blocks
    /\ internalPin # {}

\* C38: no step of a Flush, whether the Flush succeeds or fails, changes
\* directSet or recursiveSet; and IsPinned, IsPinnedWithType, InternalPins,
\* DirectKeys and RecursiveKeys change neither a field of the pinner nor the
\* store nor the durable pointer.
C38_FlushAndQueriesKeepState ==
    [][/\ call'.op = "Flush" => UNCHANGED <<directPin, recursePin>>
       /\ (\/ /\ pc = "idle"
              /\ call'.op \in {"IsPinned", "IsPinnedWithType", "InternalPins"}
           \/ obs' # obs)
              => UNCHANGED <<directPin, recursePin, internalPin, rootNode,
                             blocks, dstore, pc>>]_vars

C38_Witness ==
    /\ Returned("InternalPins", "ok")
    /\ internalPin # {}
    /\ directPin # {}
    /\ obs.stage # "none"
    /\ nflush > 0

\* C39: IsPinnedWithType(k, m) with m one of "recursive", "direct" and
\* "internal" answers (m, pinned) exactly when k is in the set m names and
\* (not pinned) otherwise, with no error, also when a recursive root cannot
\* be fetched.
C39_TypedQueryIsMembership ==
    (pc = "idle" /\ call.op = "IsPinnedWithType"
     /\ call.arg \in {"recursive", "direct", "internal"})
        => LET set == IF call.arg = "recursive" THEN recursePin
                      ELSE IF call.arg = "direct" THEN directPin
                      ELSE internalPin
           IN  call.ret = IF call.k \in set THEN call.arg ELSE "notpinned"

C39_Witness ==
    /\ Returned("IsPinnedWithType", "internal")
    /\ call.k = emptyKey
    /\ call.k \in internalPin
    /\ \E root \in recursePin : root \notin blocks

\* C32: within a Flush the pointer is written from the last storing step
\* only, when the nodes of both set encodings, the empty node and the new
\* root are all in the store; and a step of the Flush that takes a node out
\* of the store comes after the pointer names the new root.
C32_PointerLastThenCleanup ==
    [][(pc \notin {"idle", "pin_fetch", "down"})
          => /\ dstore' # dstore => pc = "flush_put"
             /\ (pc = "flush_put" /\ (pc' = "flush_cleanup" \/ call'.ret = "ok"))
                    => /\ dstore' = fl.root
                       /\ RecordNodes(fl.root) \cup {emptyKey} \subseteq blocks
             /\ ~(blocks \subseteq blocks')
                    => /\ pc = "flush_cleanup"
                       /\ dstore = fl.root]_vars

C32_Witness ==
    /\ pc = "flush_cleanup"
    /\ fl.i > 1
    /\ dstore = fl.root
    /\ dstore # pre.dstore
    /\ rootNode = pre.dstore
    /\ ~(RecordNodes(rootNode) \subseteq blocks)

\* C34: a Pin call that returns an error leaves directSet and recursiveSet
\* exactly as they were before the call, also when it is the recursive Pin
\* of a directly pinned key whose graph cannot be fetched.
C34_FailedPinKeepsSets ==
    (pc = "idle" /\ call.op = "Pin" /\ call.ret # "ok") => SetsKept

\* C35: a query of type "indirect" or "all" answers (not pinned, no error),
\* and Unpin answers not pinned, only when every recursive root and every
\* node below one could be fetched and none of them reaches k; when no root
\* reaches k and some node of the walk cannot be fetched, the query and
\* Unpin return the fetch error.
C35_NoSilentFalseNegative ==
    LET walked == \/ /\ call.op = "IsPinnedWithType"
                     /\ call.arg \in {"all", "indirect"}
                  \/ call.op = "Unpin"
        inSet == call.k \in pre.directPin \cup pre.recursePin
                               \cup pre.internalPin
    IN  (pc = "idle" /\ walked) =>
            /\ call.ret = "notpinned"
                   => (WalkFetchable /\ RootsOver(call.k) = {})
            /\ (/\ call.op = "Unpin" \/ call.arg = "all" => ~inSet
                /\ RootsOver(call.k) = {}
                /\ ~WalkFetchable)
                   => call.ret = IF call.op = "Unpin" THEN "fetch" ELSE "error"

C35_Witness ==
    /\ Returned("Unpin", "fetch")
    /\ InNoSet(call.k)
    /\ RootsOver(call.k) = {}
    /\ \E r \in pre.recursePin : r \in pre.blocks /\ Descendants(r) # {}
    /\ ~WalkFetchable

\* C36: between calls, a pinner that has a root node (kept by a successful
\* Flush or by LoadPinner) has the node the durable pointer names; a Flush
\* that returns an error has changed neither the root node nor the pointer.
C36_RootNodeIsThePointer ==
    /\ (pc = "idle" /\ rootNode # NoNode) => rootNode = dstore
    /\ Returned("Flush", "error")
           => (rootNode = pre.rootNode /\ dstore = pre.dstore)

C36_Witness ==
    /\ Returned("Flush", "error")
    /\ rootNode # NoNode
    /\ rootNode = dstore
    /\ directPin # {}
    /\ LinkTargets(rootNode) = {emptyKey}

\* C33: the walk of an indirect query ends without a visited set: below each
\* recursive root, hasChild makes at most one Get per path of the (acyclic)
\* graph, whether the Get gives the node or an error, and with that many
\* Gets it reaches the answer hasChild gives.
C33_IndirectWalkTerminates ==
    Did("IsPinnedWithType", "indirect") =>
        \A rk \in recursePin \cap blocks :
            LET walk == hasChildFuel(rk, call.k, 1, FetchesFrom(rk, 1))
            IN  /\ walk.has # "stuck"
                /\ walk.has = hasChild(rk, call.k)

C33_Witness ==
    /\ Did("IsPinnedWithType", "indirect")
    /\ call.ret = "notpinned"
    /\ ndE \in recursePin
    /\ hasChildFuel(ndE, call.k, 1, FetchesFrom(ndE, 1)).left = 0
    /\ FetchesFrom(ndE, 1) > Cardinality(Descendants(ndE))

\* C37: a call that has returned, with success, an error or a panic, has
\* released the lock, and a call that holds the lock returns: whenever the
\* lock is held it is free again later, so a caller that waits for it is let
\* in and its call completes.
C37_LockIsAlwaysReleased ==
    /\ [](call.ret # "pending" => pc = "idle")
    /\ (pc # "idle") ~> (pc = "idle")

C37_Witness ==
    /\ Returned("RemovePinWithMode", "panic")
    /\ pre.recursePin # {}
    /\ nflush > 0

====
